---- MODULE Spec2Model ----
(***************************************************************************)
(* Model of haystack/nodes/file_converter/tika.py: the TikaXHTMLParser     *)
(* page splitter and the post-processing pipeline of TikaConverter.convert *)
(* (numeric-table filter, language validation, page join, metadata merge). *)
(*                                                                         *)
(* Text is a sequence of one-character strings, so that splitting, joining *)
(* and replacing are computed character by character as Python does.       *)
(***************************************************************************)
EXTENDS Integers, Sequences, FiniteSets, TLC

\* ------------------------------------------------------------------ bounds
MaxEvents == 5

MaxPieces == 3

MaxPasses == 2

MaxSegments == 3

\* --------------------------------------------------------------- variables
VARIABLES
  pc,
  ingest, page, pages, events,
  self_remove_numeric_tables, self_valid_languages,
  remove_numeric_tables, valid_languages, meta, parsed_metadata,
  lines, cleaned_lines, cleaned_pages,
  validate_called, warned, documents

vars ==
  << pc, ingest, page, pages, events,
     self_remove_numeric_tables, self_valid_languages,
     remove_numeric_tables, valid_languages, meta, parsed_metadata,
     lines, cleaned_lines, cleaned_pages,
     validate_called, warned, documents >>

parserVars == << ingest, page, pages >>

convertVars ==
  << self_remove_numeric_tables, self_valid_languages,
     remove_numeric_tables, valid_languages, meta, parsed_metadata,
     validate_called, warned, documents >>

\* ----------------------------------------------------------------- values
\* Python's Optional[T]: None is the empty tuple, a value x is <<x>>.
None == << >>

Some(x) == << x >>

Last(s) == s[Len(s)]

Range(s) == { s[i] : i \in 1..Len(s) }

\* A dict with no keys.
EmptyDict == [k \in {} |-> ""]

\* ----------------------------------------------------- TikaXHTMLParser
NoAttrs == << >>

PageAttrs == << << "class", "page" >> >>

StartEvent(tag, attrs) == [kind |-> "start", tag |-> tag, attrs |-> attrs, data |-> << >>]

EndEvent(tag) == [kind |-> "end", tag |-> tag, attrs |-> NoAttrs, data |-> << >>]

DataEvent(data) == [kind |-> "data", tag |-> "", attrs |-> NoAttrs, data |-> data]

\* The parser object: __init__ sets ingest = True, page = "", pages = [].
ParserInit == [ingest |-> TRUE, page |-> << >>, pages |-> << >>]

IsPageClass(a) == a[1] = "class" /\ a[2] = "page"

\* pagediv = [value for attr, value in attrs if attr == "class" and value == "page"]
Pagediv(attrs) == SelectSeq(attrs, IsPageClass)

handle_starttag(p, tag, attrs) ==
  IF tag = "div" /\ Pagediv(attrs) # << >>
    THEN [p EXCEPT !.ingest = TRUE]
    ELSE p

\* str.replace("-\n", ""): a left-to-right scan that skips every occurrence.
RECURSIVE ReplaceFrom(_, _)
ReplaceFrom(s, i) ==
  IF i > Len(s) THEN << >>
  ELSE IF i < Len(s) /\ s[i] = "-" /\ s[i + 1] = "\n"
    THEN ReplaceFrom(s, i + 2)
    ELSE << s[i] >> \o ReplaceFrom(s, i + 1)

ReplaceHyphenNewline(s) == ReplaceFrom(s, 1)

\* A plausible slip: the page is saved without restoring the hyphened words.
handle_endtag_noreplace(p, tag) ==
  IF (tag = "div" \/ tag = "body") /\ p.ingest
    THEN [ingest |-> FALSE, page |-> << >>, pages |-> Append(p.pages, p.page)]
    ELSE p

\* A plausible slip: the ingest guard is forgotten.
handle_endtag_noguard(p, tag) ==
  IF tag = "div" \/ tag = "body"
    THEN [ingest |-> FALSE, page |-> << >>,
          pages |-> Append(p.pages, ReplaceHyphenNewline(p.page))]
    ELSE p

\* A plausible slip: every end tag closes the page.
handle_endtag_anytag(p, tag) ==
  IF p.ingest
    THEN [ingest |-> FALSE, page |-> << >>,
          pages |-> Append(p.pages, ReplaceHyphenNewline(p.page))]
    ELSE p

handle_endtag(p, tag) ==
  IF (tag = "div" \/ tag = "body") /\ p.ingest
    THEN [ingest |-> FALSE, page |-> << >>,
          pages |-> Append(p.pages, ReplaceHyphenNewline(p.page))]
    ELSE p

handle_data(p, data) ==
  IF p.ingest THEN [p EXCEPT !.page = p.page \o data] ELSE p

\* HTMLParser dispatches each token of the fed markup to one handler.
Dispatch(p, e) ==
  CASE e.kind = "start" -> handle_starttag(p, e.tag, e.attrs)
    [] e.kind = "end" -> handle_endtag(p, e.tag)
    [] OTHER -> handle_data(p, e.data)

RECURSIVE FeedFrom(_, _, _)
FeedFrom(p, evs, i) ==
  IF i > Len(evs) THEN p ELSE FeedFrom(Dispatch(p, evs[i]), evs, i + 1)

\* parser = TikaXHTMLParser(); parser.feed(content)
Feed(evs) == FeedFrom(ParserInit, evs, 1)

\* Tokens the parser is fed one at a time.
StartEvents ==
  { StartEvent("div", PageAttrs), StartEvent("div", NoAttrs), StartEvent("p", PageAttrs) }

EndEvents == { EndEvent("div"), EndEvent("body"), EndEvent("p") }

DataEvents == { DataEvent(<< "a" >>), DataEvent(<< "-" >>), DataEvent(<< "\n" >>) }

ParserState == [ingest |-> ingest, page |-> page, pages |-> pages]

SetParser(p) ==
  /\ ingest' = p.ingest
  /\ page' = p.page
  /\ pages' = p.pages

IdleConvert ==
  /\ self_remove_numeric_tables = FALSE
  /\ self_valid_languages = None
  /\ remove_numeric_tables = FALSE
  /\ valid_languages = None
  /\ meta = None
  /\ parsed_metadata = EmptyDict
  /\ validate_called = FALSE
  /\ warned = FALSE
  /\ documents = << >>

IdleFilter ==
  /\ lines = << >>
  /\ cleaned_lines = << >>
  /\ cleaned_pages = << >>

InitParser ==
  /\ pc = "feed"
  /\ ingest = ParserInit.ingest
  /\ page = ParserInit.page
  /\ pages = ParserInit.pages
  /\ events = << >>
  /\ IdleConvert
  /\ IdleFilter

StartTag ==
  /\ pc = "feed"
  /\ Len(events) < MaxEvents
  /\ \E e \in StartEvents :
       /\ SetParser(handle_starttag(ParserState, e.tag, e.attrs))
       /\ events' = Append(events, e)
  /\ UNCHANGED << pc, convertVars, lines, cleaned_lines, cleaned_pages >>

EndTag ==
  /\ pc = "feed"
  /\ Len(events) < MaxEvents
  /\ \E e \in EndEvents :
       /\ SetParser(handle_endtag(ParserState, e.tag))
       /\ events' = Append(events, e)
  /\ UNCHANGED << pc, convertVars, lines, cleaned_lines, cleaned_pages >>

CharData ==
  /\ pc = "feed"
  /\ Len(events) < MaxEvents
  /\ \E e \in DataEvents :
       /\ SetParser(handle_data(ParserState, e.data))
       /\ events' = Append(events, e)
  /\ UNCHANGED << pc, convertVars, lines, cleaned_lines, cleaned_pages >>

NextParser == StartTag \/ EndTag \/ CharData

SpecParser == InitParser /\ [][NextParser]_vars

\* ------------------------------------- convert: the numeric-table filter
\* Characters str.split() and str.strip() treat as whitespace.
Whitespace == { " ", "\t", "\n", "\r", "\f" }

\* Characters str.splitlines() treats as line boundaries ("\r\n" is one).
LineBoundaries == { "\n", "\r", "\f" }

\* Characters for which str.isdigit() is true.
Digits == { "0", "1", "2", "3", "4", "5", "6", "7", "8", "9" }

\* A plausible slip: page.splitlines(True), which keeps the line ends.
RECURSIVE SplitlinesKeepends(_, _, _)
SplitlinesKeepends(s, i, cur) ==
  IF i > Len(s) THEN (IF cur = << >> THEN << >> ELSE << cur >>)
  ELSE IF s[i] \in LineBoundaries
    THEN IF s[i] = "\r" /\ i < Len(s) /\ s[i + 1] = "\n"
           THEN << cur \o << "\r", "\n" >> >> \o SplitlinesKeepends(s, i + 2, << >>)
           ELSE << Append(cur, s[i]) >> \o SplitlinesKeepends(s, i + 1, << >>)
    ELSE SplitlinesKeepends(s, i + 1, Append(cur, s[i]))

\* page.splitlines(): cut at every line boundary, the boundaries dropped, and
\* no empty last line after a final boundary.
RECURSIVE SplitlinesFrom(_, _, _)
SplitlinesFrom(s, i, cur) ==
  IF i > Len(s) THEN (IF cur = << >> THEN << >> ELSE << cur >>)
  ELSE IF s[i] \in LineBoundaries
    THEN << cur >> \o
         SplitlinesFrom(s, IF s[i] = "\r" /\ i < Len(s) /\ s[i + 1] = "\n"
                             THEN i + 2 ELSE i + 1, << >>)
    ELSE SplitlinesFrom(s, i + 1, Append(cur, s[i]))

Splitlines(s) == SplitlinesFrom(s, 1, << >>)

\* line.split(): the maximal runs of non-whitespace characters.
RECURSIVE SplitFrom(_, _, _)
SplitFrom(s, i, cur) ==
  IF i > Len(s) THEN (IF cur = << >> THEN << >> ELSE << cur >>)
  ELSE IF s[i] \in Whitespace
    THEN (IF cur = << >> THEN << >> ELSE << cur >>) \o SplitFrom(s, i + 1, << >>)
    ELSE SplitFrom(s, i + 1, Append(cur, s[i]))

Split(s) == SplitFrom(s, 1, << >>)

\* any(i.isdigit() for i in word)
HasDigit(word) == \E i \in 1..Len(word) : word[i] \in Digits

\* line.strip()
RECURSIVE LStrip(_)
LStrip(s) ==
  IF s # << >> /\ s[1] \in Whitespace THEN LStrip(Tail(s)) ELSE s

RECURSIVE RStrip(_)
RStrip(s) ==
  IF s # << >> /\ Last(s) \in Whitespace THEN RStrip(SubSeq(s, 1, Len(s) - 1)) ELSE s

Strip(s) == RStrip(LStrip(s))

\* s.endswith(".")
EndsWithPeriod(s) == s # << >> /\ Last(s) = "."

\* The threshold 0.4 of len(digits) / len(words) > 0.4, as the fraction 4/10.
RatioNum == 4

RatioDen == 10

\* A plausible slip: >= 0.4 for > 0.4.
RemoveLineAtThreshold(line, flag) ==
  LET words == Split(line)
      digits == SelectSeq(words, HasDigit)
  IN /\ flag
     /\ words # << >>
     /\ RatioDen * Len(digits) >= RatioNum * Len(words)
     /\ ~EndsWithPeriod(Strip(line))

\* A plausible slip: the remove_numeric_tables test is left out.
RemoveLineAnyFlag(line, flag) ==
  LET words == Split(line)
      digits == SelectSeq(words, HasDigit)
  IN /\ words # << >>
     /\ RatioDen * Len(digits) > RatioNum * Len(words)
     /\ ~EndsWithPeriod(Strip(line))

\* Whether the loop body reaches `continue` for this line.
RemoveLine(line, flag) ==
  LET words == Split(line)
      digits == SelectSeq(words, HasDigit)
  IN /\ flag
     /\ words # << >>
     /\ RatioDen * Len(digits) > RatioNum * Len(words)
     /\ ~EndsWithPeriod(Strip(line))

\* The inner loop: cleaned_lines holds, in order, the lines not removed.
CleanedLines(ls, flag) == SelectSeq(ls, LAMBDA l : ~RemoveLine(l, flag))

\* sep.join(parts)
RECURSIVE JoinFrom(_, _, _)
JoinFrom(sep, parts, i) ==
  IF i > Len(parts) THEN << >>
  ELSE IF i = Len(parts) THEN parts[i]
  ELSE parts[i] \o sep \o JoinFrom(sep, parts, i + 1)

Join(sep, parts) == JoinFrom(sep, parts, 1)

\* One pass of the body of `for page in parser.pages`.
CleanedPage(p, flag) == Join(<< "\n" >>, CleanedLines(Splitlines(p), flag))

\* Page texts the filter is applied to: up to MaxPieces pieces, concatenated.
Pieces ==
  { << "a" >>, << "1" >>, << "." >>, << " " >>, << "\n" >>, << "\r" >>,
    << "1", " ", "1", " ", "a", " ", "a", " ", "a" >>,
    << "1", " ", "2", " ", "3", " ", "x" >> }

PageInputs ==
  { Join(<< >>, ps) : ps \in UNION { [1..k -> Pieces] : k \in 0..MaxPieces } }

InitFilter ==
  /\ pc = "filter"
  /\ ingest = FALSE
  /\ page = << >>
  /\ pages \in { << p >> : p \in PageInputs }
  /\ events = << >>
  /\ self_remove_numeric_tables = FALSE
  /\ self_valid_languages = None
  /\ remove_numeric_tables \in BOOLEAN
  /\ valid_languages = None
  /\ meta = None
  /\ parsed_metadata = EmptyDict
  /\ validate_called = FALSE
  /\ warned = FALSE
  /\ documents = << >>
  /\ IdleFilter

\* The loop body applied to the page, and then to its own result.
FilterPage ==
  /\ pc = "filter"
  /\ Len(cleaned_pages) < MaxPasses
  /\ LET input == IF cleaned_pages = << >> THEN pages[1] ELSE Last(cleaned_pages)
     IN /\ lines' = Splitlines(input)
        /\ cleaned_lines' = CleanedLines(lines', remove_numeric_tables)
        /\ page' = Join(<< "\n" >>, cleaned_lines')
        /\ cleaned_pages' = Append(cleaned_pages, page')
  /\ UNCHANGED << pc, ingest, pages, events, convertVars >>

NextFilter == FilterPage

SpecFilter == InitFilter /\ [][NextFilter]_vars

\* ------------------------------------------------ TikaConverter.convert
\* A plausible slip: {**meta, **parsed["metadata"]}, the service winning.
MergeMetaServiceWins(service, caller) ==
  [k \in (DOMAIN service) \cup (DOMAIN caller) |->
     IF k \in DOMAIN service THEN service[k] ELSE caller[k]]

\* {**parsed["metadata"], **(meta or {})}
MergeMeta(service, caller) ==
  [k \in (DOMAIN service) \cup (DOMAIN caller) |->
     IF k \in DOMAIN caller THEN caller[k] ELSE service[k]]

\* meta or {}
MetaOrEmpty(m) == IF m = None THEN EmptyDict ELSE m[1]

\* A plausible slip: the pages joined with a newline.
DocumentTextNewline(cleaned) == Join(<< "\n" >>, cleaned)

\* text = "\f".join(cleaned_pages)
DocumentText(cleaned) == Join(<< "\f" >>, cleaned)

\* A plausible slip: `if valid_languages is not None`.
LanguageCheckRunsNotNone(langs) == langs # None

\* `if valid_languages:` is false for None and for the empty list.
LanguageCheckRuns(langs) == langs # None /\ langs[1] # << >>

\* BaseConverter.validate_language: whether the language detected in the text
\* is one of the allowed languages.
validate_language(detected, langs) == detected \in Range(langs)

\* What language detection may report for a text.
DetectedLanguages == { "en", "de" }

\* Markup the service returns, as the tokens it parses to: up to MaxSegments
\* segments, each a page container with its text, loose text, or the body end.
PageSegment(data) ==
  << StartEvent("div", PageAttrs), DataEvent(data), EndEvent("div") >>

Segments ==
  { PageSegment(<< "a" >>), PageSegment(<< "1" >>), PageSegment(<< "a", "\n", "1" >>),
    << DataEvent(<< "a" >>) >>, << EndEvent("body") >> }

Contents ==
  { Join(<< >>, ss) : ss \in UNION { [1..k -> Segments] : k \in 0..MaxSegments } }

\* parsed["metadata"]
ServiceMetadata == { [title |-> "A"], [title |-> "A", pages |-> "1"] }

\* The meta argument of convert.
MetaArgs == { None, Some(EmptyDict), Some([title |-> "B", author |-> "C"]) }

\* The remove_numeric_tables argument of convert.
FlagArgs == { None, Some(TRUE), Some(FALSE) }

\* The valid_languages argument of convert.
LanguageArgs == { None, Some(<< >>), Some(<< "de", "fr" >>) }

\* A constructed TikaConverter, before convert is called.
Init ==
  /\ pc = "ready"
  /\ ingest = FALSE
  /\ page = << >>
  /\ pages = << >>
  /\ events = << >>
  /\ self_remove_numeric_tables \in BOOLEAN
  /\ self_valid_languages \in { None, Some(<< "en" >>) }
  /\ remove_numeric_tables = FALSE
  /\ valid_languages = None
  /\ meta = None
  /\ parsed_metadata = EmptyDict
  /\ validate_called = FALSE
  /\ warned = FALSE
  /\ documents = << >>
  /\ IdleFilter

\* convert is entered: arguments left at None take the instance's values.
ConvertCall ==
  /\ pc = "ready"
  /\ \E m \in MetaArgs, flag \in FlagArgs, langs \in LanguageArgs :
       /\ meta' = m
       /\ remove_numeric_tables' =
            IF flag = None THEN self_remove_numeric_tables ELSE flag[1]
       /\ valid_languages' = IF langs = None THEN self_valid_languages ELSE langs
  /\ pc' = "parse"
  /\ UNCHANGED << parserVars, events, self_remove_numeric_tables, self_valid_languages,
                  parsed_metadata, validate_called, warned, documents,
                  lines, cleaned_lines, cleaned_pages >>

\* The service's answer is parsed by a new TikaXHTMLParser.
Parse ==
  /\ pc = "parse"
  /\ \E content \in Contents, metadata \in ServiceMetadata :
       /\ SetParser(Feed(content))
       /\ parsed_metadata' = metadata
  /\ pc' = "clean"
  /\ UNCHANGED << events, self_remove_numeric_tables, self_valid_languages,
                  remove_numeric_tables, valid_languages, meta,
                  validate_called, warned, documents,
                  lines, cleaned_lines, cleaned_pages >>

\* for page in parser.pages: ... cleaned_pages.append(page)
CleanPages ==
  /\ pc = "clean"
  /\ cleaned_pages' =
       [i \in 1..Len(pages) |-> CleanedPage(pages[i], remove_numeric_tables)]
  /\ IF pages = << >>
       THEN UNCHANGED << lines, cleaned_lines >>
       ELSE /\ lines' = Splitlines(Last(pages))
            /\ cleaned_lines' = CleanedLines(lines', remove_numeric_tables)
  /\ pc' = "validate"
  /\ UNCHANGED << parserVars, events, convertVars >>

\* if valid_languages: validate_language(...), a warning when it fails.
ValidateLanguage ==
  /\ pc = "validate"
  /\ IF LanguageCheckRuns(valid_languages)
       THEN \E detected \in DetectedLanguages :
              /\ validate_called' = TRUE
              /\ warned' = ~validate_language(detected, valid_languages[1])
       ELSE UNCHANGED << validate_called, warned >>
  /\ pc' = "return"
  /\ UNCHANGED << parserVars, events, self_remove_numeric_tables, self_valid_languages,
                  remove_numeric_tables, valid_languages, meta, parsed_metadata,
                  documents, lines, cleaned_lines, cleaned_pages >>

\* The document is built and returned as a one-element list.
BuildDocument ==
  /\ pc = "return"
  /\ documents' =
       << [content |-> DocumentText(cleaned_pages),
           meta |-> MergeMeta(parsed_metadata, MetaOrEmpty(meta))] >>
  /\ pc' = "done"
  /\ UNCHANGED << parserVars, events, self_remove_numeric_tables, self_valid_languages,
                  remove_numeric_tables, valid_languages, meta, parsed_metadata,
                  validate_called, warned, lines, cleaned_lines, cleaned_pages >>

Next == ConvertCall \/ Parse \/ CleanPages \/ ValidateLanguage \/ BuildDocument

Spec == Init /\ [][Next]_vars

\* ------------------------------------------------- claims on the parser
\* What the fed token sequence is, as markup: the stack of open div elements
\* (TRUE for a page container), the number of page containers closed so far,
\* and whether a div end tag came with no div open (stray), a div without the
\* page class was opened (plain), or a div was opened inside a div (nested).
ScanInit ==
  [open |-> << >>, closed |-> 0, stray |-> FALSE, plain |-> FALSE, nested |-> FALSE]

ScanStep(st, e) ==
  IF e.kind = "start" /\ e.tag = "div"
    THEN LET isPage == \E i \in 1..Len(e.attrs) : e.attrs[i] = << "class", "page" >>
         IN [st EXCEPT !.open = Append(st.open, isPage),
                       !.plain = st.plain \/ ~isPage,
                       !.nested = st.nested \/ st.open # << >>]
  ELSE IF e.kind = "end" /\ e.tag = "div"
    THEN IF st.open = << >>
           THEN [st EXCEPT !.stray = TRUE]
           ELSE [st EXCEPT !.open = SubSeq(st.open, 1, Len(st.open) - 1),
                           !.closed = st.closed + (IF Last(st.open) THEN 1 ELSE 0)]
  ELSE st

RECURSIVE ScanFrom(_, _, _)
ScanFrom(st, evs, i) ==
  IF i > Len(evs) THEN st ELSE ScanFrom(ScanStep(st, evs[i]), evs, i + 1)

Scan(evs) == ScanFrom(ScanInit, evs, 1)

\* The sequence ends with its only body end tag.
BodyEndIsFinal(evs) ==
  /\ Len(evs) > 0
  /\ Last(evs) = EndEvent("body")
  /\ \A i \in 1..(Len(evs) - 1) : evs[i] # EndEvent("body")

\* Every div element is a page container, none inside another, each closed.
FlatPageContainers(evs) ==
  LET st == Scan(evs)
  IN ~st.stray /\ ~st.plain /\ ~st.nested /\ st.open = << >>

\* C1 as stated, on markup whose div elements are all closed, un-nested page
\* containers: N closed page containers and a final body end tag give N+1
\* pages when N >= 1, and one page when N = 0.
C1_PagesAreNPlusOne ==
  (BodyEndIsFinal(events) /\ FlatPageContainers(events)) =>
    LET n == Scan(events).closed
    IN Len(pages) = (IF n >= 1 THEN n + 1 ELSE 1)

\* C1 amended: on markup whose div elements are all closed, un-nested page
\* containers, followed by one final body end tag, the parser holds exactly N
\* pages when N >= 1 (the text before the first page container is part of the
\* first page) and exactly one page when N = 0.
C1_PagesAreN ==
  (BodyEndIsFinal(events) /\ FlatPageContainers(events)) =>
    LET n == Scan(events).closed
    IN Len(pages) = (IF n >= 1 THEN n ELSE 1)

\* Text, then a page container with text, then the body end: one page that
\* holds both texts.
C1_Witness ==
  /\ events = << DataEvent(<< "a" >>), StartEvent("div", PageAttrs),
                 DataEvent(<< "a" >>), EndEvent("div"), EndEvent("body") >>
  /\ pages = << << "a", "a" >> >>

\* The text with every character of a hyphen-newline pair taken out.
InHyphenNewline(s, i) ==
  \/ s[i] = "-" /\ i < Len(s) /\ s[i + 1] = "\n"
  \/ s[i] = "\n" /\ i > 1 /\ s[i - 1] = "-"

Collapsed(s) ==
  LET idx == [i \in 1..Len(s) |-> i]
      kept == SelectSeq(idx, LAMBDA i : ~InHyphenNewline(s, i))
  IN [j \in 1..Len(kept) |-> s[kept[j]]]

\* C5: character data received while ingesting is appended to the page's raw
\* text as it is, and every page pushed is that raw text with each
\* hyphen-newline pair removed, wherever the event boundaries fell.
C5_PushedPageIsCollapsed ==
  [][ /\ (Last(events').kind = "data" /\ ingest) => page' = page \o Last(events').data
      /\ pages' # pages => pages' = Append(pages, Collapsed(page)) ]_vars

\* The hyphen and the newline arrive in two consecutive data events.
C5_Witness ==
  /\ events = << DataEvent(<< "a" >>), DataEvent(<< "-" >>), DataEvent(<< "\n" >>),
                 DataEvent(<< "a" >>), EndEvent("body") >>
  /\ pages = << << "a", "a" >> >>

\* The end tag e, arriving after evs, closes a page container or the body.
ClosesPageOrBody(evs, e) ==
  \/ e.tag = "body"
  \/ e.tag = "div" /\ Scan(evs).open # << >> /\ Last(Scan(evs).open)

\* The end tag e, arriving after evs, closes an open element that is neither
\* a page container nor the body.
ClosesOtherElement(evs, e) ==
  \/ e.tag \notin { "div", "body" }
  \/ e.tag = "div" /\ Scan(evs).open # << >> /\ ~Last(Scan(evs).open)

\* C9: a page is pushed only by an end tag that closes a page container or the
\* body, while ingesting; the end tag of any other element (a div without the
\* page class inside a page too) leaves ingest, page and pages as they were.
C9_OnlyPageOrBodyEndPushes ==
  [][ LET e == Last(events')
      IN /\ (pages' # pages /\ ~Scan(events').stray) =>
              (e.kind = "end" /\ ClosesPageOrBody(events, e) /\ ingest)
         /\ (e.kind = "end" /\ ClosesOtherElement(events, e)) =>
              UNCHANGED << ingest, page, pages >> ]_vars

\* C10 as stated, on markup whose div elements are all un-nested page
\* containers: no body end tag, no pages.
C10_NoBodyEndNoPages ==
  LET st == Scan(events)
  IN ((\A i \in 1..Len(events) : events[i] # EndEvent("body"))
        /\ ~st.stray /\ ~st.plain /\ ~st.nested)
       => pages = << >>

\* C10 amended: with neither a body end tag nor a div end tag among the
\* events, no page is ever pushed: pages stays empty and the text stays in the
\* accumulator, which nothing reads.
C10_NoBodyOrDivEndNoPages ==
  (\A i \in 1..Len(events) :
      events[i] # EndEvent("body") /\ events[i] # EndEvent("div"))
    => (pages = << >> /\ ingest)

\* A page container is opened, text arrives, an inner element closes, and
\* neither the div nor the body is ever closed.
C10_Witness ==
  /\ events = << StartEvent("div", PageAttrs), DataEvent(<< "a" >>), EndEvent("p") >>
  /\ page = << "a" >>
  /\ pages = << >>

\* ------------------------------------------------- claims on the filter
\* Positions of a line where a whitespace-separated word starts.
WordStarts(l) ==
  { i \in 1..Len(l) : l[i] \notin Whitespace /\ (i = 1 \/ l[i - 1] \in Whitespace) }

\* The word starting at position i contains a digit.
WordHasDigit(l, i) ==
  \E k \in i..Len(l) :
    /\ l[k] \in Digits
    /\ \A j \in i..k : l[j] \notin Whitespace

\* The line, trimmed of surrounding whitespace, ends with a period.
TrimmedEndsWithPeriod(l) ==
  \E i \in 1..Len(l) : l[i] = "." /\ \A j \in (i + 1)..Len(l) : l[j] \in Whitespace

\* The rule of C4: flag enabled, at least one word, more than 0.4 of the
\* words hold a digit (5 * digit words > 2 * words), no final period.
DroppedByRule(l, flag) ==
  LET nWords == Cardinality(WordStarts(l))
      nDigitWords == Cardinality({ i \in WordStarts(l) : WordHasDigit(l, i) })
  IN /\ flag
     /\ nWords >= 1
     /\ 5 * nDigitWords > 2 * nWords
     /\ ~TrimmedEndsWithPeriod(l)

\* C4: the lines kept are, in their order, exactly the lines the rule does not
\* drop; so a line without words is never dropped, and with the flag disabled
\* none is.
C4_DropsExactlyByRule ==
  Len(cleaned_pages) >= 1 =>
    /\ cleaned_lines =
         SelectSeq(lines, LAMBDA l : ~DroppedByRule(l, remove_numeric_tables))
    /\ \A i \in 1..Len(lines) :
         (WordStarts(lines[i]) = {} \/ ~remove_numeric_tables) =>
           \E j \in 1..Len(cleaned_lines) : cleaned_lines[j] = lines[i]

\* Flag enabled: the line with 2 digit words of 5 is kept, the line with 3
\* digit words of 4 and no final period is dropped.
C4_Witness ==
  /\ remove_numeric_tables
  /\ pages = << << "1", " ", "1", " ", "a", " ", "a", " ", "a", "\n",
                   "1", " ", "2", " ", "3", " ", "x" >> >>
  /\ Len(cleaned_pages) = 1
  /\ cleaned_lines = << << "1", " ", "1", " ", "a", " ", "a", " ", "a" >> >>

\* C3 as stated: with the flag disabled the cleaned page equals the input page
\* character for character.
C3_DisabledIsIdentity ==
  (~remove_numeric_tables /\ Len(cleaned_pages) >= 1) => cleaned_pages[1] = pages[1]

\* Every line boundary of the text is a single "\n" that is not its last
\* character.
OnlyInnerNewlines(s) ==
  \A i \in 1..Len(s) : s[i] \in LineBoundaries => (s[i] = "\n" /\ i < Len(s))

\* C3 amended: with the flag disabled no line is dropped, and the cleaned page
\* equals the input page character for character whenever every line boundary
\* of the input is a single "\n" and the input does not end with one.
C3_DisabledKeepsLines ==
  (~remove_numeric_tables /\ Len(cleaned_pages) >= 1) =>
    /\ cleaned_lines = lines
    /\ OnlyInnerNewlines(pages[1]) => cleaned_pages[1] = pages[1]

\* Flag disabled, a numeric line between two newline-separated lines: kept.
C3_Witness ==
  /\ ~remove_numeric_tables
  /\ pages = << << "a", "\n", "1" >> >>
  /\ cleaned_pages = << << "a", "\n", "1" >> >>

\* C2 as stated: filtering the filtered page changes nothing.
C2_Idempotent ==
  \A i \in 2..Len(cleaned_pages) : cleaned_pages[i] = cleaned_pages[i - 1]

\* C2 amended: filtering the filtered page changes nothing whenever the
\* filtered page does not end with a newline, that is, whenever the last line
\* kept is not an empty line after another kept line.
C2_IdempotentUnlessTrailingNewline ==
  \A i \in 2..Len(cleaned_pages) :
    (cleaned_pages[i - 1] = << >> \/ Last(cleaned_pages[i - 1]) # "\n")
      => cleaned_pages[i] = cleaned_pages[i - 1]

\* Flag enabled, a numeric line dropped and a line kept, filtered twice.
C2_Witness ==
  /\ remove_numeric_tables
  /\ pages = << << "1", " ", "2", " ", "3", " ", "x", "\n", "a" >> >>
  /\ cleaned_pages = << << "a" >>, << "a" >> >>

\* ------------------------------------------------- claims on convert
\* Where page i starts in the joined text: after the pages before it and one
\* separator for each of them.
RECURSIVE OffsetOf(_, _)
OffsetOf(ps, i) ==
  IF i <= 1 THEN 0 ELSE OffsetOf(ps, i - 1) + Len(ps[i - 1]) + 1

\* C6: convert returns one document; its text holds the cleaned pages in the
\* splitter's order, each followed by one form feed except the last, and
\* nothing else: k pages give k-1 separators.
C6_TextIsPagesJoinedByFormFeed ==
  pc = "done" =>
    /\ Len(documents) = 1
    /\ Len(cleaned_pages) = Len(pages)
    /\ \A i \in 1..Len(pages) :
         cleaned_pages[i] = CleanedPage(pages[i], remove_numeric_tables)
    /\ LET text == documents[1].content
           k == Len(cleaned_pages)
       IN /\ Len(text) =
               (IF k = 0 THEN 0 ELSE OffsetOf(cleaned_pages, k) + Len(cleaned_pages[k]))
          /\ \A i \in 1..k :
               LET from == OffsetOf(cleaned_pages, i)
                   to == from + Len(cleaned_pages[i])
               IN /\ SubSeq(text, from + 1, to) = cleaned_pages[i]
                  /\ i < k => text[to + 1] = "\f"

\* Two pages, no line dropped: page0 + "\f" + page1.
C6_Witness ==
  /\ pc = "done"
  /\ remove_numeric_tables
  /\ pages = << << "a", "a" >>, << "a" >> >>
  /\ documents[1].content = << "a", "a", "\f", "a" >>

\* C7: the document's metadata has every key of the service metadata and of
\* the caller's meta; a key of the caller's meta has the caller's value, any
\* other key the service's; without caller meta it is the service metadata.
C7_MetaIsUnionCallerWins ==
  pc = "done" =>
    LET merged == documents[1].meta
        caller == IF meta = None THEN EmptyDict ELSE meta[1]
    IN /\ DOMAIN merged = (DOMAIN parsed_metadata) \cup (DOMAIN caller)
       /\ \A k \in DOMAIN caller : merged[k] = caller[k]
       /\ \A k \in (DOMAIN parsed_metadata) \ (DOMAIN caller) :
            merged[k] = parsed_metadata[k]
       /\ (meta = None \/ caller = EmptyDict) => merged = parsed_metadata

\* A key in both, a key of the service only, a key of the caller only.
C7_Witness ==
  /\ pc = "done"
  /\ parsed_metadata = [title |-> "A", pages |-> "1"]
  /\ meta = Some([title |-> "B", author |-> "C"])
  /\ documents[1].meta = [title |-> "B", author |-> "C", pages |-> "1"]

\* C8: the returned document is determined by the parsed pages, the flag and
\* the two metadata mappings alone, whatever the language check did;
\* validate_language is called exactly when the effective allow-list is
\* neither unset nor empty; a warning comes only from a check that ran, and
\* convert still returns its document after it.
C8_LanguageCheckChangesNothing ==
  /\ validate_called <=> (pc \in { "return", "done" }
                           /\ valid_languages # None /\ Len(valid_languages[1]) > 0)
  /\ warned => validate_called
  /\ pc = "done" =>
       documents =
         << [content |->
               Join(<< "\f" >>,
                    [i \in 1..Len(pages) |->
                       CleanedPage(pages[i], remove_numeric_tables)]),
             meta |-> MergeMeta(parsed_metadata, MetaOrEmpty(meta))] >>

\* The allow-list is ["de", "fr"], the check failed and warned, and the
\* document is returned with its text.
C8_Witness ==
  /\ pc = "done"
  /\ valid_languages = Some(<< "de", "fr" >>)
  /\ validate_called
  /\ warned
  /\ pages = << << "a" >> >>
  /\ documents[1].content = << "a" >>

====
